---- MODULE Spec2Model ----
(***************************************************************************)
(* zfs-rewrite.py: rewrite every regular file of a tree exactly once,      *)
(* deduplicating hardlinks by device/inode and resuming from a state file. *)
(*                                                                         *)
(* The model covers the identity tracker (check_seen, mark_seen), the      *)
(* state store (load_rewritten_paths, the append-mode handle of            *)
(* rewrite_zfs_files) and the orchestrator (collect_files,                 *)
(* rewrite_zfs_files), over a small file tree and several process runs     *)
(* sharing one state file.                                                 *)
(*                                                                         *)
(* Paths and file contents are sequences of characters, so that the        *)
(* writer (path + "\n") and the reader (line iteration + str.strip) are    *)
(* modelled by what they do to the text.                                   *)
(***************************************************************************)
EXTENDS Integers, Sequences, FiniteSets, TLC

(***************************************************************************)
(* Bounds of the model.                                                    *)
(***************************************************************************)
\* number of process runs sharing the state file
MaxRuns == 2
\* number of lines of the state file before the first run
MaxInitLines == 1
\* number of changes made to the tree between runs
MaxFsChanges == 1

(***************************************************************************)
(* The universe: characters, paths, device/inode identities, entries.      *)
(***************************************************************************)
SP == " "
NL == "\n"
\* characters removed by str.strip()
Whitespace == {SP, NL}

\* three names in the directory /d; the third differs from the first by a
\* trailing space only
PA == <<"/", "d", "/", "a">>
PB == <<"/", "d", "/", "b">>
PAS == <<"/", "d", "/", "a", SP>>
Paths == {PA, PB, PAS}

\* DevInode(dev, inode), src 95
DevInode(d, i) == [dev |-> d, inode |-> i]
\* the None of "DevInode | None"
None == [dev |-> 0, inode |-> 0]
\* identities: two inodes of one device, and an equal inode number on another
Ids == {DevInode(1, 1), DevInode(1, 2), DevInode(2, 1)}

\* what a name of the tree is: nothing, a directory, a FIFO or device node,
\* a regular file, or a symlink to a regular file (id: what os.stat reports)
Absent == [kind |-> "absent", id |-> None]
Dir == [kind |-> "dir", id |-> None]
Fifo == [kind |-> "fifo", id |-> None]
Reg(id) == [kind |-> "reg", id |-> id]
SymReg(id) == [kind |-> "symreg", id |-> id]
Entries == {Absent, Dir, Fifo} \cup {Reg(id) : id \in Ids} \cup {SymReg(id) : id \in Ids}

(***************************************************************************)
(* Filesystem collaborators.                                               *)
(***************************************************************************)
\* os.path.isfile: follows symlinks, False for anything that does not exist
isfile(fsys, p) == p \in DOMAIN fsys /\ fsys[p].kind \in {"reg", "symreg"}

\* os.stat(p) -> (st_dev, st_ino), follows symlinks
os_stat(fsys, p) == fsys[p].id

\* the names os.walk(path, followlinks=False) yields in "files": every entry
\* that is not a directory, symlinks included
WalkFiles(fsys) == {p \in DOMAIN fsys : fsys[p].kind \in {"reg", "symreg", "fifo"}}

(***************************************************************************)
(* Identity tracker.  T = [P |-> FILE_PATH_SEEN, D |-> DEVICE_INODES_SEEN] *)
(* D is a dict: a function whose domain is the set of devices seen.        *)
(***************************************************************************)
EmptyTracker == [P |-> {}, D |-> <<>>]

\* check_seen without the device/inode lookup of src 131-134
check_seen_by_path_only(T, fsys, file_path) ==
    IF file_path \in T.P THEN None
    ELSE DevInode(os_stat(fsys, file_path).dev, os_stat(fsys, file_path).inode)

check_seen(T, fsys, file_path) ==
    IF file_path \in T.P THEN None
    ELSE LET stat_info == os_stat(fsys, file_path) IN
         IF stat_info.dev \in DOMAIN T.D /\ stat_info.inode \in T.D[stat_info.dev]
         THEN None
         ELSE DevInode(stat_info.dev, stat_info.inode)

\* mark_seen without FILE_PATH_SEEN.add of src 156
mark_seen_inode_only(T, fsys, file_path, dev_inode) ==
    LET di == IF dev_inode = None THEN os_stat(fsys, file_path) ELSE dev_inode
        inodes == IF di.dev \in DOMAIN T.D THEN T.D[di.dev] ELSE {}
    IN [P |-> T.P,
        D |-> [d \in DOMAIN T.D \cup {di.dev} |->
                  IF d = di.dev THEN inodes \cup {di.inode} ELSE T.D[d]]]

\* mark_seen without the inode index of src 162-166
mark_seen_path_only(T, fsys, file_path, dev_inode) ==
    [P |-> T.P \cup {file_path}, D |-> T.D]

mark_seen(T, fsys, file_path, dev_inode) ==
    LET di == IF dev_inode = None THEN os_stat(fsys, file_path) ELSE dev_inode
        inodes == IF di.dev \in DOMAIN T.D THEN T.D[di.dev] ELSE {}
    IN [P |-> T.P \cup {file_path},
        D |-> [d \in DOMAIN T.D \cup {di.dev} |->
                  IF d = di.dev THEN inodes \cup {di.inode} ELSE T.D[d]]]

\* every identity recorded in the index
SeenIds(T) == {id \in Ids : id.dev \in DOMAIN T.D /\ id.inode \in T.D[id.dev]}

(***************************************************************************)
(* State store: text of the state file.                                    *)
(***************************************************************************)
\* "for line in f": the text cut after each "\n"; a last piece without
\* newline is a line too
RECURSIVE LinesFrom(_, _)
LinesFrom(text, cur) ==
    IF text = <<>> THEN (IF cur = <<>> THEN <<>> ELSE <<cur>>)
    ELSE IF Head(text) = NL
         THEN <<Append(cur, NL)>> \o LinesFrom(Tail(text), <<>>)
         ELSE LinesFrom(Tail(text), Append(cur, Head(text)))
Lines(text) == LinesFrom(text, <<>>)

\* str.strip(): drops leading and trailing whitespace
RECURSIVE LStrip(_)
LStrip(s) == IF s # <<>> /\ Head(s) \in Whitespace THEN LStrip(Tail(s)) ELSE s
RECURSIVE RStrip(_)
RStrip(s) ==
    IF s # <<>> /\ s[Len(s)] \in Whitespace THEN RStrip(SubSeq(s, 1, Len(s) - 1)) ELSE s
strip(s) == RStrip(LStrip(s))

\* the loop of load_rewritten_paths without the isfile test of src 189-190
RECURSIVE LoadLines_unchecked(_, _, _)
LoadLines_unchecked(T, fsys, lines) ==
    IF lines = <<>> THEN T
    ELSE LET path == strip(Head(lines)) IN
         IF path = <<>> THEN LoadLines_unchecked(T, fsys, Tail(lines))
         ELSE LoadLines_unchecked(mark_seen(T, fsys, path, None), fsys, Tail(lines))

\* the loop of load_rewritten_paths over the lines
RECURSIVE LoadLines(_, _, _)
LoadLines(T, fsys, lines) ==
    IF lines = <<>> THEN T
    ELSE LET path == strip(Head(lines)) IN
         IF path = <<>> THEN LoadLines(T, fsys, Tail(lines))
         ELSE IF ~isfile(fsys, path) THEN LoadLines(T, fsys, Tail(lines))
         ELSE LoadLines(mark_seen(T, fsys, path, None), fsys, Tail(lines))

\* sf = [exists, content]: the state file on disk
load_rewritten_paths(T, fsys, sf) ==
    IF ~sf.exists THEN T ELSE LoadLines(T, fsys, Lines(sf.content))

\* f"{file_path}\n"
LineOf(file_path) == Append(file_path, NL)

\* open(rewritten_paths_file, "a"): creates the file when missing
open_append(sf) == [exists |-> TRUE, content |-> IF sf.exists THEN sf.content ELSE <<>>]

\* src 262-265 without the dry_run test
open_state_always(dry, sf) == [handle |-> "open", file |-> open_append(sf)]

\* src 262-265: the handle is opened only when the run is not a dry run
open_state(dry, sf) ==
    IF ~dry THEN [handle |-> "open", file |-> open_append(sf)]
    ELSE [handle |-> "None", file |-> sf]

\* the buffered text reaches the file
flush(sf, buf) == [exists |-> TRUE, content |-> sf.content \o buf]

\* a close that drops what is buffered (no finally clause, src 308-310)
close_dropping(sf, buf) == sf

\* rewritten_f.close(): flushes what is buffered
close(sf, buf) == flush(sf, buf)


\* rewritten_f.write(line): the text goes to the handle's buffer
write(buf, line) == buf \o line

\* subprocess.check_call captures nothing: the CalledProcessError it raises
\* carries stderr = None
CheckCallStderr == "None"

\* the error leaving the except clause: e.stderr.decode() is evaluated first
ErrorRaised == IF CheckCallStderr = "None" THEN "AttributeError" ELSE "CalledProcessError"

(***************************************************************************)
(* State.                                                                  *)
(***************************************************************************)
VARIABLES
    fs,                  \* the tree: [Paths -> Entries]
    state_file,          \* the state file on disk: [exists, content]
    run,                 \* number of the current process run
    pc,                  \* where the process is
    dry_run,             \* args.dry_run
    FILE_PATH_SEEN,      \* src 92
    DEVICE_INODES_SEEN,  \* src 93
    walked,              \* names os.walk has already yielded
    files_set,           \* collect_files: files_set, then "files"
    todo,                \* candidates the for loop has not reached yet
    file_path,           \* loop variable of rewrite_zfs_files
    dev_inode,           \* result of check_seen in the loop
    num_files,
    num_processed,
    num_rewritten,
    rewritten_f,         \* "None", "open" or "closed"
    wbuf,                \* text written to rewritten_f, not yet in the file
    exc,                 \* error that ended the run, "" when none
    calls,               \* this run's invocations of zfs rewrite: [path, id, ok]
    okCount,             \* successful rewrites per identity, over all runs
    ever,                \* identities rewritten by a run, or attested by the initial state file
    disk0,               \* the state file as the current run found it
    prevDone,            \* the previous run was a real run that completed normally
    fschanges            \* number of changes made to the tree between runs

vars == <<fs, state_file, run, pc, dry_run, FILE_PATH_SEEN, DEVICE_INODES_SEEN,
          walked, files_set, todo, file_path, dev_inode, num_files, num_processed,
          num_rewritten, rewritten_f, wbuf, exc, calls, okCount, ever, disk0, prevDone, fschanges>>

Tracker == [P |-> FILE_PATH_SEEN, D |-> DEVICE_INODES_SEEN]

\* lines a state file may hold before the first run: blank, or any name
InitLines == {<<NL>>} \cup {LineOf(p) : p \in Paths}

RECURSIVE Texts(_)
Texts(n) == IF n = 0 THEN {<<>>}
            ELSE Texts(n - 1) \cup {t \o l : t \in Texts(n - 1), l \in InitLines}

InitStateFiles ==
    {[exists |-> FALSE, content |-> <<>>]}
        \cup {[exists |-> TRUE, content |-> t] : t \in Texts(MaxInitLines)}

\* memory of a fresh process
FreshProcess ==
    /\ pc = "start"
    /\ FILE_PATH_SEEN = {}
    /\ DEVICE_INODES_SEEN = <<>>
    /\ walked = {}
    /\ files_set = {}
    /\ todo = {}
    /\ file_path = <<>>
    /\ dev_inode = None
    /\ num_files = 0
    /\ num_processed = 0
    /\ num_rewritten = 0
    /\ rewritten_f = "None"
    /\ wbuf = <<>>
    /\ exc = ""
    /\ calls = <<>>

Init ==
    /\ fs \in [Paths -> Entries]
    /\ state_file \in InitStateFiles
    /\ dry_run \in BOOLEAN
    /\ run = 1
    /\ FreshProcess
    /\ okCount = [id \in Ids |-> 0]
    /\ ever = SeenIds(load_rewritten_paths(EmptyTracker, fs, state_file))
    /\ disk0 = state_file
    /\ prevDone = FALSE
    /\ fschanges = 0

(***************************************************************************)
(* __main__, src 318-322, one action per step.                             *)
(***************************************************************************)
\* load_rewritten_paths(args.rewritten_paths_file)
Load ==
    /\ pc = "start"
    /\ LET T == load_rewritten_paths(Tracker, fs, state_file) IN
        /\ FILE_PATH_SEEN' = T.P
        /\ DEVICE_INODES_SEEN' = T.D
    /\ pc' = "collect"
    /\ UNCHANGED <<fs, state_file, run, dry_run, walked, files_set, todo, file_path,
                   dev_inode, num_files, num_processed, num_rewritten, rewritten_f,
                   wbuf, exc, calls, okCount, ever, disk0, prevDone, fschanges>>

\* one iteration of the loops of collect_files, on the name p
Collect(p) ==
    /\ pc = "collect"
    /\ p \in WalkFiles(fs) \ walked
    /\ walked' = walked \cup {p}
    /\ files_set' = IF ~isfile(fs, p) THEN files_set
                    ELSE IF check_seen(Tracker, fs, p) = None THEN files_set
                    ELSE files_set \cup {p}
    /\ UNCHANGED <<fs, state_file, run, pc, dry_run, FILE_PATH_SEEN, DEVICE_INODES_SEEN,
                   todo, file_path, dev_inode, num_files, num_processed, num_rewritten,
                   rewritten_f, wbuf, exc, calls, okCount, ever, disk0, prevDone, fschanges>>

\* collect_files returns; rewrite_zfs_files up to its for loop, src 262-272
Begin ==
    /\ pc = "collect"
    /\ WalkFiles(fs) \ walked = {}
    /\ LET o == open_state(dry_run, state_file) IN
        /\ rewritten_f' = o.handle
        /\ state_file' = o.file
    /\ num_files' = Cardinality(files_set)
    /\ num_processed' = 0
    /\ num_rewritten' = 0
    /\ todo' = files_set
    /\ pc' = "loop"
    /\ UNCHANGED <<fs, run, dry_run, FILE_PATH_SEEN, DEVICE_INODES_SEEN, walked,
                   files_set, file_path, dev_inode, wbuf, exc, calls, okCount, ever,
                   disk0, prevDone, fschanges>>

\* one iteration of the for loop on candidate p, up to the outcome of the
\* rewrite command (ok), src 274-301; on failure the finally clause runs
Examine(p, ok) ==
    /\ pc = "loop"
    /\ p \in todo
    /\ todo' = todo \ {p}
    /\ file_path' = p
    /\ num_processed' = num_processed + 1
    /\ IF ~isfile(fs, p)
       THEN \* Skipping non-file
            /\ ok
            /\ UNCHANGED <<pc, dev_inode, state_file, rewritten_f, wbuf, exc, calls,
                           okCount, ever>>
       ELSE LET di == check_seen(Tracker, fs, p) IN
            /\ dev_inode' = di
            /\ IF di = None
               THEN \* Skipping already rewritten file
                    /\ ok
                    /\ UNCHANGED <<pc, state_file, rewritten_f, wbuf, exc, calls,
                                   okCount, ever>>
               ELSE IF dry_run
               THEN \* Would rewrite
                    /\ ok
                    /\ pc' = "commit"
                    /\ UNCHANGED <<state_file, rewritten_f, wbuf, exc, calls, okCount,
                                   ever>>
               ELSE \* zfs rewrite file_path
                    /\ calls' = Append(calls, [path |-> p, id |-> os_stat(fs, p), ok |-> ok])
                    /\ IF ok
                       THEN /\ pc' = "commit"
                            /\ okCount' = [okCount EXCEPT ![os_stat(fs, p)] = @ + 1]
                            /\ ever' = ever \cup {os_stat(fs, p)}
                            /\ UNCHANGED <<state_file, rewritten_f, wbuf, exc>>
                       ELSE /\ pc' = "failed"
                            /\ exc' = ErrorRaised
                            /\ state_file' = close(state_file, wbuf)
                            /\ wbuf' = <<>>
                            /\ rewritten_f' = "closed"
                            /\ UNCHANGED <<okCount, ever>>
    /\ UNCHANGED <<fs, run, dry_run, FILE_PATH_SEEN, DEVICE_INODES_SEEN, walked,
                   files_set, num_files, num_rewritten, disk0, prevDone, fschanges>>

\* src 303-306: count, mark seen, write the line; full is whether the write
\* fills the handle's buffer, which then goes to the file
Commit(full) ==
    /\ pc = "commit"
    /\ num_rewritten' = num_rewritten + 1
    /\ LET T == mark_seen(Tracker, fs, file_path, dev_inode) IN
        /\ FILE_PATH_SEEN' = T.P
        /\ DEVICE_INODES_SEEN' = T.D
    /\ IF rewritten_f # "None"
       THEN IF full
            THEN /\ state_file' = flush(state_file, write(wbuf, LineOf(file_path)))
                 /\ wbuf' = <<>>
            ELSE /\ wbuf' = write(wbuf, LineOf(file_path))
                 /\ state_file' = state_file
       ELSE /\ ~full
            /\ UNCHANGED <<state_file, wbuf>>
    /\ pc' = "loop"
    /\ UNCHANGED <<fs, run, dry_run, walked, files_set, todo, file_path, dev_inode,
                   num_files, num_processed, rewritten_f, exc, calls, okCount, ever,
                   disk0, prevDone, fschanges>>

\* the loop is exhausted: finally clause, summary, assert, src 308-315
\* the end of the function reached while candidates are left
Finish_truncating ==
    /\ pc = "loop"
    /\ IF rewritten_f # "None"
       THEN /\ state_file' = close(state_file, wbuf)
            /\ wbuf' = <<>>
            /\ rewritten_f' = "closed"
       ELSE UNCHANGED <<state_file, wbuf, rewritten_f>>
    /\ IF num_processed = num_files
       THEN pc' = "done" /\ exc' = exc
       ELSE pc' = "failed" /\ exc' = "AssertionError"
    /\ UNCHANGED <<fs, run, dry_run, FILE_PATH_SEEN, DEVICE_INODES_SEEN, walked,
                   files_set, todo, file_path, dev_inode, num_files, num_processed,
                   num_rewritten, calls, okCount, ever, disk0, prevDone, fschanges>>

Finish ==
    /\ pc = "loop"
    /\ todo = {}
    /\ IF rewritten_f # "None"
       THEN /\ state_file' = close(state_file, wbuf)
            /\ wbuf' = <<>>
            /\ rewritten_f' = "closed"
       ELSE UNCHANGED <<state_file, wbuf, rewritten_f>>
    /\ IF num_processed = num_files
       THEN pc' = "done" /\ exc' = exc
       ELSE pc' = "failed" /\ exc' = "AssertionError"
    /\ UNCHANGED <<fs, run, dry_run, FILE_PATH_SEEN, DEVICE_INODES_SEEN, walked,
                   files_set, todo, file_path, dev_inode, num_files, num_processed,
                   num_rewritten, calls, okCount, ever, disk0, prevDone, fschanges>>

(***************************************************************************)
(* The environment: the process is killed; the tool is run again.          *)
(***************************************************************************)
Running == pc \in {"collect", "loop", "commit"}
Exited == pc \in {"done", "failed", "killed"}

\* the process is killed: its memory is gone, and what the handle buffers
\* never reaches the file
Kill ==
    /\ Running
    /\ pc' = "killed"
    /\ wbuf' = <<>>
    /\ FILE_PATH_SEEN' = {}
    /\ DEVICE_INODES_SEEN' = <<>>
    /\ walked' = {}
    /\ files_set' = {}
    /\ todo' = {}
    /\ file_path' = <<>>
    /\ dev_inode' = None
    /\ num_files' = 0
    /\ num_processed' = 0
    /\ num_rewritten' = 0
    /\ UNCHANGED <<fs, state_file, run, dry_run, rewritten_f, exc, calls, okCount,
                   ever, disk0, prevDone, fschanges>>

\* the tool is started again with the same path and state file
Rerun(d) ==
    /\ Exited
    /\ run < MaxRuns
    /\ run' = run + 1
    /\ dry_run' = d
    /\ prevDone' = (pc = "done" /\ ~dry_run)
    /\ disk0' = state_file
    /\ pc' = "start"
    /\ FILE_PATH_SEEN' = {}
    /\ DEVICE_INODES_SEEN' = <<>>
    /\ walked' = {}
    /\ files_set' = {}
    /\ todo' = {}
    /\ file_path' = <<>>
    /\ dev_inode' = None
    /\ num_files' = 0
    /\ num_processed' = 0
    /\ num_rewritten' = 0
    /\ rewritten_f' = "None"
    /\ wbuf' = <<>>
    /\ exc' = ""
    /\ calls' = <<>>
    /\ UNCHANGED <<fs, state_file, okCount, ever, fschanges>>

\* between two runs (after one exited, before the next loads the state
\* file) a name of the tree is deleted, created, replaced by another file,
\* or made a hardlink of a file of the tree
FsChange(p, e) ==
    /\ pc = "start"
    /\ run > 1
    /\ fschanges < MaxFsChanges
    /\ e # fs[p]
    /\ fs' = [fs EXCEPT ![p] = e]
    /\ fschanges' = fschanges + 1
    /\ UNCHANGED <<state_file, run, pc, dry_run, FILE_PATH_SEEN, DEVICE_INODES_SEEN,
                   walked, files_set, todo, file_path, dev_inode, num_files,
                   num_processed, num_rewritten, rewritten_f, wbuf, exc, calls, okCount,
                   ever, disk0, prevDone>>

\* between two runs the entry p is renamed to the free name q
FsRename(p, q) ==
    /\ pc = "start"
    /\ run > 1
    /\ fschanges < MaxFsChanges
    /\ fs[p] # Absent
    /\ fs[q] = Absent
    /\ fs' = [fs EXCEPT ![p] = Absent, ![q] = fs[p]]
    /\ fschanges' = fschanges + 1
    /\ UNCHANGED <<state_file, run, pc, dry_run, FILE_PATH_SEEN, DEVICE_INODES_SEEN,
                   walked, files_set, todo, file_path, dev_inode, num_files,
                   num_processed, num_rewritten, rewritten_f, wbuf, exc, calls, okCount,
                   ever, disk0, prevDone>>

Next ==
    \/ Load
    \/ \E p \in Paths : Collect(p)
    \/ Begin
    \/ \E p \in Paths, ok \in BOOLEAN : Examine(p, ok)
    \/ \E full \in BOOLEAN : Commit(full)
    \/ Finish
    \/ Kill
    \/ \E d \in BOOLEAN : Rerun(d)

Spec == Init /\ [][Next]_vars

\* the runs of Spec, with the tree changing between them; the first run
\* finds no state file and a tree of regular files
InitFS ==
    /\ Init
    /\ ~state_file.exists
    /\ \A p \in Paths : fs[p].kind \in {"absent", "reg"}

NextFS ==
    \/ Next
    \/ \E p \in Paths, e \in {Absent} \cup {Reg(id) : id \in Ids} : FsChange(p, e)
    \/ \E p, q \in Paths : FsRename(p, q)

SpecFS == InitFS /\ [][NextFS]_vars

(***************************************************************************)
(* The environment acting during a run: the state file cannot be opened,   *)
(* the tree changes under the walk or the loop, a file vanishes between    *)
(* os.path.isfile and the os.stat of check_seen.                           *)
(***************************************************************************)
\* src 263: open(rewritten_paths_file, "a") raises OSError; nothing of
\* rewrite_zfs_files after it runs (the try block is not entered)
\* the failed open reported but not raised: the loop starts without a handle
BeginOpenFails_continuing ==
    /\ pc = "collect"
    /\ WalkFiles(fs) \ walked = {}
    /\ ~dry_run
    /\ num_files' = Cardinality(files_set)
    /\ num_processed' = 0
    /\ num_rewritten' = 0
    /\ todo' = files_set
    /\ pc' = "loop"
    /\ exc' = "OSError"
    /\ UNCHANGED <<fs, state_file, run, dry_run, FILE_PATH_SEEN, DEVICE_INODES_SEEN,
                   walked, files_set, file_path, dev_inode, rewritten_f, wbuf, calls,
                   okCount, ever, disk0, prevDone, fschanges>>

BeginOpenFails ==
    /\ pc = "collect"
    /\ WalkFiles(fs) \ walked = {}
    /\ ~dry_run
    /\ pc' = "failed"
    /\ exc' = "OSError"
    /\ UNCHANGED <<fs, state_file, run, dry_run, FILE_PATH_SEEN, DEVICE_INODES_SEEN,
                   walked, files_set, todo, file_path, dev_inode, num_files,
                   num_processed, num_rewritten, rewritten_f, wbuf, calls, okCount,
                   ever, disk0, prevDone, fschanges>>

\* while the process walks or loops, the regular file p is deleted or
\* replaced by another file (or by a hardlink of one)
FsTouch(p, e) ==
    /\ pc \in {"collect", "loop"}
    /\ fschanges < MaxFsChanges
    /\ isfile(fs, p)
    /\ e # fs[p]
    /\ fs' = [fs EXCEPT ![p] = e]
    /\ fschanges' = fschanges + 1
    /\ UNCHANGED <<state_file, run, pc, dry_run, FILE_PATH_SEEN, DEVICE_INODES_SEEN,
                   walked, files_set, todo, file_path, dev_inode, num_files,
                   num_processed, num_rewritten, rewritten_f, wbuf, exc, calls, okCount,
                   ever, disk0, prevDone>>

\* an iteration of collect_files on p in which p is a file at src 219 and
\* is gone at the os.stat of check_seen, src 129: FileNotFoundError leaves
\* collect_files, which catches nothing
CollectStatFails(p) ==
    /\ pc = "collect"
    /\ p \in WalkFiles(fs) \ walked
    /\ fschanges < MaxFsChanges
    /\ isfile(fs, p)
    /\ p \notin FILE_PATH_SEEN
    /\ fs' = [fs EXCEPT ![p] = Absent]
    /\ fschanges' = fschanges + 1
    /\ walked' = walked \cup {p}
    /\ pc' = "failed"
    /\ exc' = "FileNotFoundError"
    /\ UNCHANGED <<state_file, run, dry_run, FILE_PATH_SEEN, DEVICE_INODES_SEEN,
                   files_set, todo, file_path, dev_inode, num_files, num_processed,
                   num_rewritten, rewritten_f, wbuf, calls, okCount, ever, disk0,
                   prevDone>>

\* an iteration of the for loop on p in which p is a file at src 279 and is
\* gone at the os.stat of check_seen, src 283: FileNotFoundError leaves the
\* loop through the finally clause
ExamineStatFails(p) ==
    /\ pc = "loop"
    /\ p \in todo
    /\ fschanges < MaxFsChanges
    /\ isfile(fs, p)
    /\ p \notin FILE_PATH_SEEN
    /\ fs' = [fs EXCEPT ![p] = Absent]
    /\ fschanges' = fschanges + 1
    /\ todo' = todo \ {p}
    /\ file_path' = p
    /\ num_processed' = num_processed + 1
    /\ IF rewritten_f # "None"
       THEN /\ state_file' = close(state_file, wbuf)
            /\ wbuf' = <<>>
            /\ rewritten_f' = "closed"
       ELSE UNCHANGED <<state_file, wbuf, rewritten_f>>
    /\ pc' = "failed"
    /\ exc' = "FileNotFoundError"
    /\ UNCHANGED <<run, dry_run, FILE_PATH_SEEN, DEVICE_INODES_SEEN, walked, files_set,
                   dev_inode, num_files, num_rewritten, calls, okCount, ever, disk0,
                   prevDone>>

\* the runs of Spec over a tree of regular files, with these events
InitEnv ==
    /\ Init
    /\ \A p \in Paths : fs[p].kind \in {"absent", "reg"}

NextEnv ==
    \/ Next
    \/ BeginOpenFails
    \/ \E p \in Paths, e \in {Absent} \cup {Reg(id) : id \in Ids} : FsTouch(p, e)
    \/ \E p \in Paths : CollectStatFails(p)
    \/ \E p \in Paths : ExamineStatFails(p)

SpecEnv == InitEnv /\ [][NextEnv]_vars

(***************************************************************************)
(* Helpers of the properties.                                              *)
(***************************************************************************)
\* the text of the state file as the current run found it
Base == IF disk0.exists THEN disk0.content ELSE <<>>

\* the lines written for the successful calls c[1..n], in order
RECURSIVE Recorded(_, _)
Recorded(c, n) ==
    IF n = 0 THEN <<>>
    ELSE Recorded(c, n - 1) \o (IF c[n].ok THEN LineOf(c[n].path) ELSE <<>>)

\* the text holds the path p as one of its lines, exactly
HasLine(text, p) ==
    \E k \in 1..Len(Lines(text)) : Lines(text)[k] \in {LineOf(p), p}

\* paths the loader reads from the state file this run found, and keeps
LoadedPaths ==
    IF ~disk0.exists THEN {}
    ELSE {q \in {strip(Lines(disk0.content)[k]) : k \in 1..Len(Lines(disk0.content))} :
              q # <<>> /\ isfile(fs, q)}

RewrittenThisRun == {calls[k].id : k \in {j \in 1..Len(calls) : calls[j].ok}}

(***************************************************************************)
(* C1: within one run the rewrite command is invoked on at most one path   *)
(* of each device/inode identity (and at most once on it).                 *)
(***************************************************************************)
C1_HardlinkDedup ==
    \A i, j \in 1..Len(calls) : i < j => calls[i].id # calls[j].id

\* two hardlinked regular files were both candidates of a completed real run
C1_Witness ==
    /\ pc = "done"
    /\ ~dry_run
    /\ fs[PA].kind = "reg" /\ fs[PB].kind = "reg" /\ fs[PA].id = fs[PB].id
    /\ {PA, PB} \subseteq files_set
    /\ fs[PA].id \in RewrittenThisRun

(***************************************************************************)
(* C2: over all runs sharing the state file, killed at any point or not,   *)
(* no identity is successfully rewritten more than once.                   *)
(***************************************************************************)
C2_AtMostOnceTotal == \A id \in Ids : okCount[id] <= 1

(***************************************************************************)
(* C3: after a real run that completed normally, the next run with the     *)
(* same state file over the unchanged tree rewrites nothing.               *)
(***************************************************************************)
C3_IdempotentResume == prevDone => (calls = <<>> /\ num_rewritten = 0)

(***************************************************************************)
(* C4: when the rewrite command fails on a candidate, the run ends with    *)
(* the lines of all earlier successful rewrites in the state file, the     *)
(* failing path neither recorded nor marked seen, and no later invocation. *)
(***************************************************************************)
C4_FailFast ==
    /\ \A k \in 1..Len(calls) : ~calls[k].ok => (k = Len(calls) /\ pc = "failed")
    /\ (pc = "failed" /\ exc # "AssertionError") =>
          /\ calls # <<>>
          /\ ~calls[Len(calls)].ok
          /\ state_file.exists
          /\ state_file.content = Base \o Recorded(calls, Len(calls))
          /\ wbuf = <<>>
          /\ rewritten_f = "closed"
          /\ calls[Len(calls)].path \notin FILE_PATH_SEEN
          /\ calls[Len(calls)].id \notin SeenIds(Tracker)

\* the second of three candidates failed
C4_Witness ==
    /\ pc = "failed"
    /\ Len(calls) = 2
    /\ calls[1].ok
    /\ todo # {}

(***************************************************************************)
(* C5: a dry run never invokes the rewrite command and never opens,        *)
(* creates or changes the state file.                                      *)
(***************************************************************************)
C5_DryRunNonMutation ==
    dry_run => /\ calls = <<>>
               /\ rewritten_f = "None"
               /\ wbuf = <<>>
               /\ state_file = disk0

\* a completed dry run that reported a file, with no state file on disk
C5_Witness ==
    /\ dry_run
    /\ pc = "done"
    /\ num_rewritten >= 1
    /\ ~disk0.exists

(***************************************************************************)
(* C6: between two candidates of a real run, the state file on disk holds  *)
(* the line of every file rewritten so far in this run.                    *)
(***************************************************************************)
C6_ImmediateAppend ==
    (pc = "loop" /\ ~dry_run) =>
        \A k \in 1..Len(calls) : calls[k].ok => HasLine(state_file.content, calls[k].path)

(***************************************************************************)
(* C7: when a real run completes normally, every regular file of the tree  *)
(* has been rewritten by this run or an earlier one, also when the tree    *)
(* changed between the runs.                                               *)
(***************************************************************************)
C7_NoFileSkipped ==
    (pc = "done" /\ ~dry_run) =>
        \A p \in Paths : fs[p].kind = "reg" => fs[p].id \in ever

(***************************************************************************)
(* C8: a path that is a line of the state file when the run starts, and    *)
(* resolves to a regular file, is no candidate and is never rewritten in   *)
(* that run.                                                               *)
(***************************************************************************)
C8_PathExactDedup ==
    \A p \in Paths :
        (pc # "start" /\ disk0.exists /\ HasLine(disk0.content, p) /\ isfile(fs, p)) =>
            /\ p \notin files_set
            /\ \A k \in 1..Len(calls) : calls[k].path # p

C10_OnlyRegularFiles ==
    /\ \A p \in files_set : fs[p].kind = "reg"
    /\ \A k \in 1..Len(calls) : fs[calls[k].path].kind = "reg"

(***************************************************************************)
(* Helpers of the properties of the candidate set.                         *)
(***************************************************************************)
\* the files discovery keeps: what isfile accepts and the loaded lines do
\* not cover by path or by identity
Eligible ==
    {p \in WalkFiles(fs) :
        /\ isfile(fs, p)
        /\ p \notin LoadedPaths
        /\ \A q \in LoadedPaths : os_stat(fs, q) # os_stat(fs, p)}

EligibleIds == {os_stat(fs, p) : p \in Eligible}

(***************************************************************************)
(* C11: the candidate set built by discovery holds at most one path of     *)
(* each device/inode identity.                                             *)
(***************************************************************************)
C11_CandidatesDeduplicated ==
    \A p, q \in files_set : p # q => os_stat(fs, p) # os_stat(fs, q)

(***************************************************************************)
(* C11, amended: the candidate set holds every file that the loaded lines  *)
(* do not cover, all hardlinks of a group included; the loop deduplicates: *)
(* a real run that completes rewrites and records exactly one path of each *)
(* identity of the candidate set.                                          *)
(***************************************************************************)
C11_DedupInLoop ==
    /\ pc \in {"loop", "commit", "done", "failed"} => files_set = Eligible
    /\ (pc = "done" /\ ~dry_run) =>
          /\ RewrittenThisRun = EligibleIds
          /\ Len(calls) = Cardinality(EligibleIds)
          /\ \A k \in 1..Len(calls) : calls[k].ok /\ calls[k].path \in files_set
          /\ state_file.content = Base \o Recorded(calls, Len(calls))
          /\ Len(Lines(state_file.content)) = Len(Lines(Base)) + Cardinality(EligibleIds)

\* two hardlinked files and a third file, an empty state file: three
\* candidates, two rewritten, two lines
C11_Witness ==
    /\ pc = "done"
    /\ ~dry_run
    /\ fs[PA].kind = "reg" /\ fs[PB].kind = "reg" /\ fs[PAS].kind = "reg"
    /\ fs[PA].id = fs[PB].id /\ fs[PAS].id # fs[PA].id
    /\ Base = <<>>
    /\ files_set = {PA, PB, PAS}
    /\ Len(calls) = 2
    /\ Len(Lines(state_file.content)) = 2

(***************************************************************************)
(* C12: when the rewrite command fails, the error that ends the run is     *)
(* the command's CalledProcessError.                                       *)
(***************************************************************************)
C12_CalledProcessErrorPropagates ==
    (pc = "failed" /\ calls # <<>> /\ ~calls[Len(calls)].ok) => exc = "CalledProcessError"

(***************************************************************************)
(* C13: in a real run a candidate is rewritten, then marked seen, then     *)
(* appended, before the next candidate: the text written by this run is    *)
(* always the lines of candidates already rewritten by it, in order, and a *)
(* candidate just rewritten is not yet marked nor written.                 *)
(***************************************************************************)
C13_RewriteMarkAppend ==
    /\ (~dry_run /\ pc \in {"loop", "commit", "done", "failed"}) =>
          LET n == Len(calls)
              m == IF pc = "commit" THEN n - 1 ELSE n
          IN /\ state_file.content \o wbuf = Base \o Recorded(calls, m)
             /\ \A k \in 1..m : calls[k].ok =>
                    /\ calls[k].path \in FILE_PATH_SEEN
                    /\ calls[k].id \in SeenIds(Tracker)
             /\ pc = "commit" =>
                    /\ calls[n].ok
                    /\ calls[n].path = file_path
                    /\ file_path \notin FILE_PATH_SEEN
                    /\ calls[n].id \notin SeenIds(Tracker)
    /\ (~dry_run /\ pc = "killed" /\ state_file.exists) =>
          \E k \in 0..Len(calls) : state_file.content = Base \o Recorded(calls, k)

\* the second candidate was rewritten and is about to be marked and written
C13_Witness ==
    /\ ~dry_run
    /\ pc = "commit"
    /\ Len(calls) = 2
    /\ wbuf # <<>>

(***************************************************************************)
(* C14: a failure to stat a file during discovery, a file that vanishes    *)
(* between the regular-file test and the identity lookup included, never   *)
(* ends the run: no FileNotFoundError is raised before the loop starts.    *)
(***************************************************************************)
C14_DiscoveryStatTolerated ==
    ~(pc = "failed" /\ exc = "FileNotFoundError" /\ num_processed = 0)

(***************************************************************************)
(* C15: an iteration that finds its candidate no longer a regular file, or *)
(* already seen by path or by identity, skips it: no rewrite command, no   *)
(* mark, no line, the candidate is counted as processed and the loop goes  *)
(* on.  (The tree does not change within the iteration.)                   *)
(***************************************************************************)
C15_SkipIneligible ==
    [][(/\ pc = "loop"
        /\ num_processed' = num_processed + 1
        /\ fs' = fs
        /\ \/ ~isfile(fs, file_path')
           \/ file_path' \in FILE_PATH_SEEN
           \/ os_stat(fs, file_path') \in SeenIds(Tracker))
       => /\ file_path' \in todo
          /\ calls' = calls
          /\ FILE_PATH_SEEN' = FILE_PATH_SEEN
          /\ DEVICE_INODES_SEEN' = DEVICE_INODES_SEEN
          /\ state_file' = state_file
          /\ wbuf' = wbuf
          /\ num_rewritten' = num_rewritten
          /\ exc' = exc
          /\ pc' = "loop"]_vars

\* the only candidate vanished after discovery: the run completed with it
\* processed and nothing rewritten
C15_Witness ==
    /\ pc = "done"
    /\ run = 1
    /\ fschanges = 1
    /\ \E p \in Paths : files_set = {p} /\ fs[p] = Absent
    /\ num_processed = 1
    /\ num_rewritten = 0
    /\ calls = <<>>

(***************************************************************************)
(* C16: a real run has no handle before the loop, an open one during it,   *)
(* and on every way out of the loop (completion, failed rewrite, failed    *)
(* stat) the handle is closed and the file holds every line written.       *)
(***************************************************************************)
C16_HandleClosedOnExit ==
    /\ pc \in {"start", "collect"} => rewritten_f = "None"
    /\ (~dry_run /\ pc \in {"loop", "commit"}) => rewritten_f = "open"
    /\ (~dry_run /\ (pc = "done" \/ (pc = "failed" /\ num_processed >= 1))) =>
          /\ rewritten_f = "closed"
          /\ wbuf = <<>>
          /\ state_file.exists
          /\ state_file.content = Base \o Recorded(calls, Len(calls))

\* a stat failure in the second iteration, after a candidate was recorded
C16_Witness ==
    /\ pc = "failed"
    /\ exc = "FileNotFoundError"
    /\ ~dry_run
    /\ num_processed = 2
    /\ Len(calls) = 1
    /\ calls[1].ok

(***************************************************************************)
(* C17: when the state file cannot be opened for append the run ends there *)
(* with the open error: no candidate is examined, no rewrite command runs, *)
(* and the step leaves the tracker and the state file as they were.        *)
(***************************************************************************)
C17_OpenFailureAborts ==
    /\ [](exc = "OSError" =>
            /\ pc = "failed"
            /\ calls = <<>>
            /\ num_processed = 0
            /\ rewritten_f = "None"
            /\ wbuf = <<>>)
    /\ [][(exc # "OSError" /\ exc' = "OSError")
          => /\ FILE_PATH_SEEN' = FILE_PATH_SEEN
             /\ DEVICE_INODES_SEEN' = DEVICE_INODES_SEEN
             /\ state_file' = state_file
             /\ todo' = todo]_vars

\* the open failed with candidates waiting
C17_Witness ==
    /\ pc = "failed"
    /\ exc = "OSError"
    /\ files_set # {}
    /\ state_file = disk0

(***************************************************************************)
(* C18: the final assertion never fails: a run that leaves the loop        *)
(* normally has processed exactly the candidate set, and in every state of *)
(* the loop num_rewritten <= num_processed <= size of the candidate set.   *)
(***************************************************************************)
C18_CountsAgree ==
    /\ exc # "AssertionError"
    /\ pc = "done" =>
          /\ num_processed = num_files
          /\ num_files = Cardinality(files_set)
    /\ pc \in {"loop", "commit", "done", "failed"} =>
          /\ num_rewritten <= num_processed
          /\ num_processed <= num_files
          /\ num_files <= Cardinality(files_set)
    /\ pc \in {"loop", "commit"} =>
          /\ num_files = Cardinality(files_set)
          /\ num_processed + Cardinality(todo) = num_files
    /\ pc = "commit" => num_rewritten < num_processed

\* a completed run over three candidates of which one was skipped
C18_Witness ==
    /\ pc = "done"
    /\ num_files = 3
    /\ num_processed = 3
    /\ num_rewritten = 2

\* the paths the loop of this run marked seen
ReportedPaths == FILE_PATH_SEEN \ LoadedPaths

(***************************************************************************)
(* C19: a dry run marks what it reports: each reported path is marked by   *)
(* path and identity, no two reported paths share an identity, the         *)
(* rewritten count is the number of reported paths; and a completed run,   *)
(* dry or real, counts one rewrite per identity of the candidate set.      *)
(***************************************************************************)
C19_DryRunMarksSeen ==
    /\ (dry_run /\ pc \in {"loop", "done"}) =>
          /\ ReportedPaths \subseteq files_set \ todo
          /\ \A p \in ReportedPaths : os_stat(fs, p) \in SeenIds(Tracker)
          /\ \A p, q \in ReportedPaths : p # q => os_stat(fs, p) # os_stat(fs, q)
          /\ num_rewritten = Cardinality(ReportedPaths)
          /\ \A p \in files_set \ todo :
                \/ p \in FILE_PATH_SEEN
                \/ os_stat(fs, p) \in SeenIds(Tracker)
          /\ calls = <<>>
    /\ pc = "done" => num_rewritten = Cardinality(EligibleIds)

\* a completed dry run over two hardlinked candidates reported one of them
C19_Witness ==
    /\ dry_run
    /\ pc = "done"
    /\ {PA, PB} \subseteq files_set
    /\ os_stat(fs, PA) = os_stat(fs, PB)
    /\ Cardinality(ReportedPaths \cap {PA, PB}) = 1
    /\ num_rewritten < num_processed

(***************************************************************************)
(* C20: the tracker contract, for every tracker the program reaches:       *)
(* check_seen returns the identity of a path unseen by path and identity   *)
(* and not-eligible otherwise; after mark_seen of a path, check_seen is    *)
(* not-eligible for it and for every path of its identity; mark_seen is    *)
(* idempotent and only grows the sets; the steps that only call check_seen *)
(* leave the tracker as it is, and the sets never shrink within a run.     *)
(***************************************************************************)
C20_TrackerContract ==
    /\ [](\A p \in Paths : isfile(fs, p) =>
            LET T  == Tracker
                id == os_stat(fs, p)
                T2 == mark_seen(T, fs, p, None)
            IN /\ mark_seen(T, fs, p, id) = T2
               /\ p \in T2.P
               /\ id \in SeenIds(T2)
               /\ check_seen(T2, fs, p) = None
               /\ \A q \in Paths :
                     (isfile(fs, q) /\ os_stat(fs, q) = id) => check_seen(T2, fs, q) = None
               /\ mark_seen(T2, fs, p, id) = T2
               /\ mark_seen(T2, fs, p, None) = T2
               /\ T.P \subseteq T2.P
               /\ SeenIds(T) \subseteq SeenIds(T2)
               /\ (p \notin T.P /\ id \notin SeenIds(T)) => check_seen(T, fs, p) = id
               /\ (p \in T.P \/ id \in SeenIds(T)) => check_seen(T, fs, p) = None)
    /\ [][/\ (\/ pc = "collect" /\ pc' # "killed"
              \/ /\ pc = "loop" /\ pc' = "loop"
                 /\ num_processed' = num_processed + 1
                 /\ check_seen(Tracker, fs, file_path') = None) =>
                /\ FILE_PATH_SEEN' = FILE_PATH_SEEN
                /\ DEVICE_INODES_SEEN' = DEVICE_INODES_SEEN
          /\ pc' \notin {"start", "killed"} =>
                /\ FILE_PATH_SEEN \subseteq FILE_PATH_SEEN'
                /\ SeenIds(Tracker) \subseteq
                      SeenIds([P |-> FILE_PATH_SEEN', D |-> DEVICE_INODES_SEEN'])]_vars

\* the loop holds a tracker with one path of a hardlink pair seen, and a
\* file unseen by path and by identity
C20_Witness ==
    /\ pc = "loop"
    /\ \E p, q \in Paths :
          /\ p # q
          /\ isfile(fs, p) /\ isfile(fs, q)
          /\ os_stat(fs, p) = os_stat(fs, q)
          /\ p \in FILE_PATH_SEEN
          /\ q \notin FILE_PATH_SEEN
    /\ \E r \in Paths :
          /\ isfile(fs, r)
          /\ r \notin FILE_PATH_SEEN
          /\ os_stat(fs, r) \notin SeenIds(Tracker)

====
